---- MODULE Spec2Model ----
(***************************************************************************)
(* NMEA sentence decoding and GGA/VTG fusion of gps-data-parser.           *)
(*                                                                         *)
(* Modelled code: GPSParser.parse_gngga, GPSParser.parse_gnvtg,            *)
(* GPSParser.insert_into_database, GPSParser.gps_data_handler              *)
(* (src/src/gps_parser.py) and NMEAParser.parse_gngga_sentence with its    *)
(* helpers (src/src/utils/helpers.py).                                     *)
(*                                                                         *)
(* Representation.                                                         *)
(*  - A sentence is the text of the line, a TLA+ string; split, slicing,   *)
(*    int() and float() are computed character by character.  The lines    *)
(*    used contain no whitespace inside numeric fields, no "_" and no      *)
(*    exponent, so int() and float() are modelled for the grammar          *)
(*    [+-]digits and [+-](digits[.digits] | .digits | inf | nan).          *)
(*  - A Python value is a record [k |-> kind, v |-> number].  A finite     *)
(*    float is held exactly as an integer count of 10^-FracDigits; the     *)
(*    decimal fractions of the lines used have at most FracDigits digits.  *)
(*    A coordinate (degrees + minutes/60) is held in units of              *)
(*    1/(60*Scale) degree, a time of day in units of 1/Scale second.       *)
(*  - A date is a day number; date.isoformat()/time.isoformat() are        *)
(*    kept as the structured value they print.                             *)
(*  - A dict is a function from key strings to values.                     *)
(***************************************************************************)
EXTENDS Integers, Sequences, FiniteSets, TLC

\* ------------------------------------------------------------------ bounds
\* number of decimal digits a float keeps in the model
FracDigits == 3
\* lines gps_data_handler reads in one run
MaxLines == 4
\* utcnow().date() is one of the days 0..MaxDay
MaxDay == 1

Scale == 10 ^ FracDigits
Days == 0 .. MaxDay

\* ------------------------------------------------------------ Python values
PyNone == [k |-> "None", v |-> 0]
PyFloat(n) == [k |-> "float", v |-> n]
PyInf(sign) == [k |-> "inf", v |-> sign]
PyNaN == [k |-> "nan", v |-> 0]
PyIntV(n) == [k |-> "int", v |-> n]
PyBool(b) == [k |-> "bool", v |-> IF b THEN 1 ELSE 0]
PyDate(d) == [k |-> "date", v |-> d]
PyTime(t) == [k |-> "time", v |-> t]

EmptyDict == [key \in {} |-> PyNone]

\* variant: the partial record replaces the accumulator instead of merging
DictUpdate_Replace(d, other) == other

\* variant: a key already present keeps its value (first write wins)
DictUpdate_KeepOld(d, other) ==
    [key \in (DOMAIN d) \cup (DOMAIN other) |->
        IF key \in DOMAIN d THEN d[key] ELSE other[key]]

\* dict.update(other)
DictUpdate(d, other) ==
    [key \in (DOMAIN d) \cup (DOMAIN other) |->
        IF key \in DOMAIN other THEN other[key] ELSE d[key]]

\* ------------------------------------------------------------------ strings
\* s[i] for a 0-based index inside the string
CharAt(s, i) == SubSeq(s, i + 1, i + 1)

\* s[a:b] and s[a:], clipped to the string as Python slices are
SliceTo(s, a, b) ==
    LET hi == IF b < Len(s) THEN b ELSE Len(s)
    IN  IF a >= hi THEN "" ELSE SubSeq(s, a + 1, hi)

SliceFrom(s, a) == SliceTo(s, a, Len(s))

\* s.startswith(prefix)
StartsWith(s, prefix) ==
    /\ Len(s) >= Len(prefix)
    /\ SubSeq(s, 1, Len(prefix)) = prefix

\* index (0-based) of the first occurrence of character c at or after i, or Len(s)
RECURSIVE FindChar(_, _, _)
FindChar(s, c, i) ==
    IF i >= Len(s) THEN Len(s)
    ELSE IF CharAt(s, i) = c THEN i
    ELSE FindChar(s, c, i + 1)

\* s.split(','): the fields between commas; a string without comma is one field
RECURSIVE SplitFrom(_, _)
SplitFrom(s, i) ==
    LET j == FindChar(s, ",", i)
    IN  IF j >= Len(s) THEN << SliceTo(s, i, Len(s)) >>
        ELSE << SliceTo(s, i, j) >> \o SplitFrom(s, j + 1)

Split(s) == SplitFrom(s, 0)

\* s.strip() for blanks
RECURSIVE Strip(_)
Strip(s) ==
    IF s = "" THEN s
    ELSE IF CharAt(s, 0) = " " THEN Strip(SliceFrom(s, 1))
    ELSE IF CharAt(s, Len(s) - 1) = " " THEN Strip(SliceTo(s, 0, Len(s) - 1))
    ELSE s

Digits == {"0", "1", "2", "3", "4", "5", "6", "7", "8", "9"}

DigitVal(c) ==
    CASE c = "0" -> 0 [] c = "1" -> 1 [] c = "2" -> 2 [] c = "3" -> 3
      [] c = "4" -> 4 [] c = "5" -> 5 [] c = "6" -> 6 [] c = "7" -> 7
      [] c = "8" -> 8 [] c = "9" -> 9

IsDigits(s) == \A i \in 0 .. (Len(s) - 1) : CharAt(s, i) \in Digits

RECURSIVE DigitsVal(_)
DigitsVal(s) ==
    IF s = "" THEN 0
    ELSE DigitsVal(SliceTo(s, 0, Len(s) - 1)) * 10 + DigitVal(CharAt(s, Len(s) - 1))

\* the sign prefix of a numeral and what follows it
SignOf(s) == IF s # "" /\ CharAt(s, 0) = "-" THEN -1 ELSE 1
Unsigned(s) == IF s # "" /\ CharAt(s, 0) \in {"-", "+"} THEN SliceFrom(s, 1) ELSE s

\* int(s): [exc |-> "none", v |-> n] or [exc |-> "ValueError", v |-> 0]
PyIntParse(s) ==
    LET u == Unsigned(s)
    IN  IF u # "" /\ IsDigits(u)
        THEN [exc |-> "none", v |-> SignOf(s) * DigitsVal(u)]
        ELSE [exc |-> "ValueError", v |-> 0]

\* the fraction digits of a numeral as a count of 10^-FracDigits
FracVal(f) ==
    IF Len(f) <= FracDigits
    THEN DigitsVal(f) * (10 ^ (FracDigits - Len(f)))
    ELSE DigitsVal(SliceTo(f, 0, FracDigits))

\* float(s): [exc |-> "none", f |-> value] or [exc |-> "ValueError", f |-> PyNaN]
PyFloatParse(s) ==
    LET u == Unsigned(s)
        dot == FindChar(u, ".", 0)
        ip == SliceTo(u, 0, dot)
        fp == SliceFrom(u, dot + 1)
    IN  IF u = "inf" THEN [exc |-> "none", f |-> PyInf(SignOf(s))]
        ELSE IF u = "nan" THEN [exc |-> "none", f |-> PyNaN]
        ELSE IF IsDigits(ip) /\ IsDigits(fp) /\ (ip # "" \/ fp # "")
        THEN [exc |-> "none",
              f |-> PyFloat(SignOf(s) * (DigitsVal(ip) * Scale + FracVal(fp)))]
        ELSE [exc |-> "ValueError", f |-> PyNaN]

\* ------------------------------------------------------- validation helpers
\* units of a coordinate value per degree
DegUnits == 60 * Scale

\* variant: the poles are excluded (strict comparison)
is_valid_latitude_Strict(lat) ==
    /\ lat.k = "float"
    /\ -90 * DegUnits < lat.v
    /\ lat.v < 90 * DegUnits

\* is_valid_latitude: a number (not None) with -90 <= lat <= 90; every
\* comparison with NaN is false, and an infinity is outside the range
is_valid_latitude(lat) ==
    /\ lat.k = "float"
    /\ -90 * DegUnits <= lat.v
    /\ lat.v <= 90 * DegUnits

is_valid_longitude(lon) ==
    /\ lon.k = "float"
    /\ -180 * DegUnits <= lon.v
    /\ lon.v <= 180 * DegUnits

\* degrees + minutes / 60, for an int degrees and a float minutes
DegMin(degrees, minutes) ==
    IF minutes.k = "float" THEN PyFloat(degrees * DegUnits + minutes.v)
    ELSE minutes

\* variant: the sign is never flipped
Neg_Identity(x) == x

\* unary minus of a float
Neg(x) ==
    IF x.k = "float" THEN PyFloat(-x.v)
    ELSE IF x.k = "inf" THEN PyInf(-x.v)
    ELSE x

\* knots_to_kmh: float(knots) * 1.852, rounded to the nearest 10^-FracDigits
knots_to_kmh(knots) ==
    IF knots.k = "float"
    THEN PyFloat(IF knots.v >= 0
                 THEN (knots.v * 1852 + 500) \div 1000
                 ELSE -((-knots.v * 1852 + 500) \div 1000))
    ELSE knots

\* ------------------------------------------------------- outcome of a call
\* what a parser call does: return None, return a dict, or raise; and the
\* severity of what it logged
ReturnNone(logged) == [ret |-> "None", data |-> EmptyDict, exc |-> "none", log |-> logged]
ReturnDict(d) == [ret |-> "dict", data |-> d, exc |-> "none", log |-> "none"]
Raises(e) == [ret |-> "raise", data |-> EmptyDict, exc |-> e, log |-> "none"]

\* ----------------------------------------------------------- field decoders
\* variant: only "no fix" is dropped
NonActionable_OnlyNoFix == {0}

\* fix qualities that are dropped: `fix_quality in [0, 6, 7, 8]`
NonActionable == {0, 6, 7, 8}

\* `fix_quality in [4, 5]`
HighAccuracy == {4, 5}

\* units of a time of day per second, per day
SecUnits == Scale
DayUnits == 24 * 60 * 60 * SecUnits

\* int(x) of a float: truncation towards zero
TruncUnits(v) == IF v >= 0 THEN v \div Scale ELSE -((-v) \div Scale)

\* hours = int(utc_time[0:2]); minutes = int(utc_time[2:4]);
\* seconds = float(utc_time[4:]);
\* datetime.time(hours, minutes, int(seconds), int((seconds - int(seconds)) * 1e6))
\* [exc, t]: t the time of day in units of 1/Scale second
DecodeTime(utc_time) ==
    LET hours == PyIntParse(SliceTo(utc_time, 0, 2))
        minutes == PyIntParse(SliceTo(utc_time, 2, 4))
        seconds == PyFloatParse(SliceFrom(utc_time, 4))
        isec == TruncUnits(seconds.f.v)
        frac == seconds.f.v - isec * Scale
    IN  IF hours.exc # "none" THEN [exc |-> hours.exc, t |-> 0]
        ELSE IF minutes.exc # "none" THEN [exc |-> minutes.exc, t |-> 0]
        ELSE IF seconds.exc # "none" THEN [exc |-> seconds.exc, t |-> 0]
        ELSE IF seconds.f.k = "inf" THEN [exc |-> "OverflowError", t |-> 0]
        ELSE IF seconds.f.k = "nan" THEN [exc |-> "ValueError", t |-> 0]
        ELSE IF \/ hours.v \notin 0 .. 23
                \/ minutes.v \notin 0 .. 59
                \/ isec \notin 0 .. 59
                \/ frac \notin 0 .. (Scale - 1)
        THEN [exc |-> "ValueError", t |-> 0]
        ELSE [exc |-> "none",
              t |-> ((hours.v * 60 + minutes.v) * 60 + isec) * SecUnits + frac]

\* degrees = int(raw[:n]); minutes = float(raw[n:]); degrees + minutes / 60;
\* negated when the hemisphere is `neg`
DecodeCoordinate(raw, n, direction, neg) ==
    LET degrees == PyIntParse(SliceTo(raw, 0, n))
        minutes == PyFloatParse(SliceFrom(raw, n))
        value == DegMin(degrees.v, minutes.f)
    IN  IF degrees.exc # "none" THEN [exc |-> degrees.exc, f |-> PyNaN]
        ELSE IF minutes.exc # "none" THEN [exc |-> minutes.exc, f |-> PyNaN]
        ELSE [exc |-> "none", f |-> IF direction = neg THEN Neg(value) ELSE value]

\* seconds that Asia/Kolkata is ahead of UTC
KolkataOffsetSeconds == 19800

\* pytz.utc.localize(datetime.combine(gps_date, gps_time)).astimezone(ist):
\* the local date and the local time of day
ToKolkata(today, t) ==
    LET local == t + KolkataOffsetSeconds * SecUnits
    IN  [date |-> today + (local \div DayUnits), time |-> local % DayUnits]

\* ------------------------------------------------------ GPSParser.parse_gngga
\* the body of the try block: a return, or the exception it raises
parse_gngga_try(sentence, today) ==
    LET parts == Split(sentence)
        n == Len(parts)
        P(i) == parts[i + 1]
    IN  IF P(0) # "$GNGGA" THEN ReturnNone("none")
        ELSE IF n <= 6 THEN Raises("IndexError")
        ELSE
        LET fix_quality == PyIntParse(P(6))
            gps_time == DecodeTime(P(1))
            latitude == DecodeCoordinate(P(2), 2, P(3), "S")
            longitude == DecodeCoordinate(P(4), 3, P(5), "W")
        IN  IF fix_quality.exc # "none" THEN Raises(fix_quality.exc)
            ELSE IF fix_quality.v \in NonActionable THEN ReturnNone("warning")
            ELSE IF gps_time.exc # "none" THEN Raises(gps_time.exc)
            ELSE IF latitude.exc # "none" THEN Raises(latitude.exc)
            ELSE IF longitude.exc # "none" THEN Raises(longitude.exc)
            ELSE IF n <= 7 THEN Raises("IndexError")
            ELSE
            LET num_satellites == PyIntParse(P(7))
                ist == ToKolkata(today, gps_time.t)
            IN  IF num_satellites.exc # "none" THEN Raises(num_satellites.exc)
                ELSE ReturnDict(
                    [ latitude |-> latitude.f,
                      longitude |-> longitude.f,
                      date |-> PyDate(ist.date),
                      time |-> PyTime(ist.time),
                      num_satellites |-> PyIntV(num_satellites.v),
                      high_accuracy |-> PyBool(fix_quality.v \in HighAccuracy),
                      fix_quality |-> PyIntV(fix_quality.v) ])

\* variant: the record carries the GPSData defaults speed_kmh = None, bearing = None
parse_gngga_WithDefaults(sentence, today) ==
    LET r == parse_gngga_try(sentence, today)
    IN  IF r.exc \in {"IndexError", "ValueError"} THEN ReturnNone("error")
        ELSE IF r.ret = "dict"
        THEN ReturnDict(DictUpdate([speed_kmh |-> PyNone, bearing |-> PyNone], r.data))
        ELSE r

\* variant: the quality rejection is logged with logging.error
parse_gngga_QualityAsError(sentence, today) ==
    LET r == parse_gngga_try(sentence, today)
    IN  IF r.exc \in {"IndexError", "ValueError"} THEN ReturnNone("error")
        ELSE IF r.log = "warning" THEN ReturnNone("error")
        ELSE r

\* except (IndexError, ValueError): logging.error(...); return None
parse_gngga(sentence, today) ==
    LET r == parse_gngga_try(sentence, today)
    IN  IF r.exc \in {"IndexError", "ValueError"} THEN ReturnNone("error") ELSE r

\* ------------------------------------------------------ GPSParser.parse_gnvtg
\* float(field) if field else None
FloatOrNone(field) ==
    IF field = "" THEN [exc |-> "none", f |-> PyNone] ELSE PyFloatParse(field)

\* variant: the speed is read from field 5 (knots) instead of field 7 (km/h)
parse_gnvtg_try_SpeedFromKnots(sentence) ==
    LET parts == Split(sentence)
        n == Len(parts)
        P(i) == parts[i + 1]
    IN  IF P(0) # "$GNVTG" THEN ReturnNone("none")
        ELSE IF n <= 1 THEN Raises("IndexError")
        ELSE
        LET bearing == FloatOrNone(P(1))
        IN  IF bearing.exc # "none" THEN Raises(bearing.exc)
            ELSE IF n <= 5 THEN Raises("IndexError")
            ELSE
            LET speed_kmh == FloatOrNone(P(5))
            IN  IF speed_kmh.exc # "none" THEN Raises(speed_kmh.exc)
                ELSE ReturnDict([bearing |-> bearing.f, speed_kmh |-> speed_kmh.f])

\* variant: field 7 is taken as knots and converted with knots_to_kmh
parse_gnvtg_try_ConvertsKnots(sentence) ==
    LET parts == Split(sentence)
        n == Len(parts)
        P(i) == parts[i + 1]
    IN  IF P(0) # "$GNVTG" THEN ReturnNone("none")
        ELSE IF n <= 1 THEN Raises("IndexError")
        ELSE
        LET bearing == FloatOrNone(P(1))
        IN  IF bearing.exc # "none" THEN Raises(bearing.exc)
            ELSE IF n <= 7 THEN Raises("IndexError")
            ELSE
            LET speed_kmh == FloatOrNone(P(7))
            IN  IF speed_kmh.exc # "none" THEN Raises(speed_kmh.exc)
                ELSE ReturnDict([bearing |-> bearing.f,
                                 speed_kmh |-> knots_to_kmh(speed_kmh.f)])

\* the body of the try block
parse_gnvtg_try(sentence) ==
    LET parts == Split(sentence)
        n == Len(parts)
        P(i) == parts[i + 1]
    IN  IF P(0) # "$GNVTG" THEN ReturnNone("none")
        ELSE IF n <= 1 THEN Raises("IndexError")
        ELSE
        LET bearing == FloatOrNone(P(1))
        IN  IF bearing.exc # "none" THEN Raises(bearing.exc)
            ELSE IF n <= 7 THEN Raises("IndexError")
            ELSE
            LET speed_kmh == FloatOrNone(P(7))
            IN  IF speed_kmh.exc # "none" THEN Raises(speed_kmh.exc)
                ELSE ReturnDict([bearing |-> bearing.f, speed_kmh |-> speed_kmh.f])

parse_gnvtg(sentence) ==
    LET r == parse_gnvtg_try(sentence)
    IN  IF r.exc \in {"IndexError", "ValueError"} THEN ReturnNone("error") ELSE r

\* -------------------------------------------- NMEAParser.parse_gngga_sentence
\* _parse_latitude / _parse_longitude: ValueError when raw or direction is empty
ParseCoordinate(raw, n, direction, neg) ==
    IF raw = "" \/ direction = "" THEN [exc |-> "ValueError", f |-> PyNaN]
    ELSE DecodeCoordinate(raw, n, direction, neg)

\* int(field) if field else 0
IntOrZero(field) ==
    IF field = "" THEN [exc |-> "none", v |-> 0] ELSE PyIntParse(field)

\* minimum number of fields: `len(parts) < 15`
MinGgaFields == 15

\* minimum length of the time field: `len(utc_time) < 6`
MinTimeLen == 6

parse_gngga_sentence_try(sentence, today) ==
    LET parts == Split(Strip(sentence))
        P(i) == parts[i + 1]
    IN  IF ~StartsWith(sentence, "$GNGGA") \/ Len(parts) < MinGgaFields
        THEN Raises("NMEAParseError")
        ELSE
        LET fix_quality == IntOrZero(P(6))
            gps_time == DecodeTime(P(1))
            latitude == ParseCoordinate(P(2), 2, P(3), "S")
            longitude == ParseCoordinate(P(4), 3, P(5), "W")
            num_satellites == IntOrZero(P(7))
        IN  IF fix_quality.exc # "none" THEN Raises(fix_quality.exc)
            ELSE IF fix_quality.v \in NonActionable THEN ReturnNone("warning")
            ELSE IF Len(P(1)) < MinTimeLen THEN Raises("NMEAParseError")
            ELSE IF gps_time.exc # "none" THEN Raises(gps_time.exc)
            \* except ValueError as e: raise NMEAParseError(...)
            ELSE IF latitude.exc # "none" THEN Raises("NMEAParseError")
            ELSE IF longitude.exc # "none" THEN Raises("NMEAParseError")
            \* GPSCoordinate.__post_init__
            ELSE IF ~is_valid_latitude(latitude.f) THEN Raises("ValueError")
            ELSE IF ~is_valid_longitude(longitude.f) THEN Raises("ValueError")
            ELSE IF num_satellites.exc # "none" THEN Raises(num_satellites.exc)
            ELSE ReturnDict(
                ( "coordinate.latitude" :> latitude.f
                  @@ "coordinate.longitude" :> longitude.f
                  @@ "date" :> PyDate(today)
                  @@ "time" :> PyTime(gps_time.t)
                  @@ "num_satellites" :> PyIntV(num_satellites.v)
                  @@ "high_accuracy" :> PyBool(fix_quality.v \in HighAccuracy)
                  @@ "fix_quality" :> PyIntV(fix_quality.v)
                  @@ "speed_kmh" :> PyNone
                  @@ "bearing" :> PyNone ))

\* except (IndexError, ValueError, NMEAParseError): logging.error(...); return None
parse_gngga_sentence(sentence, today) ==
    LET r == parse_gngga_sentence_try(sentence, today)
    IN  IF r.exc \in {"IndexError", "ValueError", "NMEAParseError"}
        THEN ReturnNone("error")
        ELSE r

\* ------------------------------------------------------------ storage calls
\* what the storage collaborator does with one INSERT
DbOutcomes ==
    { "ok",
      "execute_raises_mysql_error", "commit_raises_mysql_error",
      "execute_raises_other", "commit_raises_other" }

\* execute_query(cursor, query, params): cursor.execute(query, params)
execute_query(params, db) ==
    [ calls |-> << params >>,
      exc |-> CASE db = "execute_raises_mysql_error" -> "mysql.connector.Error"
                [] db = "execute_raises_other" -> "Exception"
                [] OTHER -> "none" ]

\* self.db_connection.commit()
commit(db) ==
    [ calls |-> 1,
      exc |-> CASE db = "commit_raises_mysql_error" -> "mysql.connector.Error"
                [] db = "commit_raises_other" -> "Exception"
                [] OTHER -> "none" ]

\* handle_database_exception(err): the error is logged and the call returns
handle_database_exception(err) == [exc |-> "none", log |-> "error"]

\* what one call of insert_into_database does: the cursor.execute calls and
\* the commits it makes, the rows it stores, and the exception that leaves it
InsertEffect(execs, commits, rows, e, logged) ==
    [execute_calls |-> execs, commit_calls |-> commits, stored |-> rows,
     exc |-> e, log |-> logged]

\* the try block of insert_into_database
insert_try(params, db) ==
    LET q == execute_query(params, db)
        c == commit(db)
    IN  IF q.exc # "none" THEN InsertEffect(q.calls, 0, {}, q.exc, "none")
        ELSE IF c.exc # "none" THEN InsertEffect(q.calls, c.calls, {}, c.exc, "none")
        ELSE InsertEffect(q.calls, c.calls, {params}, "none", "info")

insert_into_database(latitude, longitude, gps_date, gps_time, speed, bearing, interval_type, db) ==
    LET params == [latd |-> latitude, lond |-> longitude, gps_date |-> gps_date,
                   gps_time |-> gps_time, speed |-> speed, bearing |-> bearing,
                   interval_type |-> interval_type]
        r == insert_try(params, db)
    IN  IF ~(is_valid_latitude(latitude) /\ is_valid_longitude(longitude))
        THEN InsertEffect(<< >>, 0, {}, "none", "error")
        \* except mysql.connector.Error as db_err: handle_database_exception(db_err)
        ELSE IF r.exc = "mysql.connector.Error"
        THEN [r EXCEPT !.exc = handle_database_exception(r.exc).exc,
                       !.log = handle_database_exception(r.exc).log]
        ELSE r

\* ---------------------------------------------------------------- the lines
Gga(t, lat, ns, lon, ew, q, sats) ==
    "$GNGGA," \o t \o "," \o lat \o "," \o ns \o "," \o lon \o "," \o ew
        \o "," \o q \o "," \o sats \o ",0.9,545.4,M,46.9,M,,*47"

Vtg(bearing, speed) ==
    "$GNVTG," \o bearing \o ",T,034.4,M,005.5,N," \o speed \o ",K*48"

TimeFields ==
    { "123519.00", "183000.00", "182959.50", "235959.50", "000000", "12345",
      "1234", "", "246000.00", "126000.00", "123460.00", "1234inf", "1234nan",
      "12ab19.00", "1234-5.00" }

LatFields ==
    { "4807.038", "9000.000", "9000.006", "9959.99", "0000.000", "", "48",
      "48ab.000", "48inf", "48nan" }

LonFields ==
    { "01131.000", "18000.000", "18000.006", "99959.99", "", "011", "0x131.000" }

QualityFields == {"0", "1", "2", "4", "5", "6", "7", "8", "06", "", "x"}

SatFields == {"08", "", "x"}

BearingFields == {"054.7", "", "abc", "inf"}

SpeedFields == {"010.2", "000.0", "", "abc", "010.2*48"}

GgaLines ==
    { Gga(t, "4807.038", "N", "01131.000", "E", q, "08") :
          t \in TimeFields, q \in {"1", "0", "6"} }
    \cup { Gga("123519.00", lat, ns, "01131.000", "E", "1", "08") :
          lat \in LatFields, ns \in {"N", "S", ""} }
    \cup { Gga("123519.00", "4807.038", "N", lon, ew, "2", "08") :
          lon \in LonFields, ew \in {"E", "W", ""} }
    \cup { Gga("123519.00", "4807.038", "N", "01131.000", "E", q, sats) :
          q \in QualityFields, sats \in SatFields }
    \cup { Gga("183000.00", "9000.000", "S", "18000.000", "W", "4", "08"),
           Gga("123519.00", "9000.006", "S", "18000.006", "W", "5", "08"),
           "$GNGGA",
           "$GNGGA,123519.00",
           "$GNGGA,123519.00,4807.038,N,01131.000,E,1",
           "$GNGGA,123519.00,4807.038,N,01131.000,E,1,08",
           "$GNGGA,123519.00,4807.038,N,01131.000,E,0,08",
           "$GNGGAX,123519.00,4807.038,N,01131.000,E,1,08,0.9,545.4,M,46.9,M,,*47",
           "$GPGGA,123519.00,4807.038,N,01131.000,E,1,08,0.9,545.4,M,46.9,M,,*47" }

VtgLines ==
    { Vtg(b, v) : b \in BearingFields, v \in SpeedFields }
    \cup { "$GNVTG",
           "$GNVTG,054.7,T",
           "$GNVTG,054.7,T,034.4,M,005.5,N",
           "$GNVTG,054.7,T,034.4,M,005.5,N,010.2",
           "$GNVTGX,054.7,T,034.4,M,005.5,N,010.2,K*48" }

OtherLines == {"Invalid Sentence", "", "$GPRMC,123519.00,A,4807.038,N,01131.000,E"}

\* the sentences the parsers are called with
Sentences == GgaLines \cup VtgLines \cup OtherLines

\* the lines the serial port delivers to gps_data_handler
SerialLines ==
    { Gga("123519.00", "4807.038", "N", "01131.000", "E", "1", "08"),
      Gga("183000.00", "9000.000", "S", "18000.000", "W", "4", "08"),
      Gga("123519.00", "9000.006", "N", "01131.000", "E", "1", "08"),
      Gga("123519.00", "4807.038", "N", "18000.006", "W", "2", "08"),
      Gga("123519.00", "4807.038", "N", "01131.000", "E", "6", "08"),
      Gga("12ab19.00", "4807.038", "N", "01131.000", "E", "1", "08"),
      Gga("1234inf", "4807.038", "N", "01131.000", "E", "1", "08"),
      "$GNGGA,123519.00",
      Vtg("054.7", "010.2"),
      Vtg("", ""),
      Vtg("abc", "010.2"),
      "Invalid Sentence" }

\* -------------------------------------------------------------------- state
VARIABLES
    combined_data,  \* gps_data_handler: the accumulator dict
    running,        \* gps_data_handler: the while loop has not been left
    lines_read,     \* number of readline() calls made
    handoffs,       \* the arguments of each insert_into_database call, in order
    execute_calls,  \* the parameters of each cursor.execute call, in order
    commit_calls,   \* number of db_connection.commit() calls
    table,          \* rows executed and committed
    last_db,        \* what the storage collaborator did in the last iteration
    call,           \* the last parser call: function, arguments, outcome
    utc_day,        \* the day datetime.utcnow() last returned; the clock never runs back
    conversion,     \* the last knots_to_kmh call: its argument and its result
    since_reset,    \* history: the partial records merged since combined_data = {}
    n_gga,          \* history: number of GGA partial records merged
    n_vtg,          \* history: number of VTG partial records merged
    last_gga,       \* history: the last GGA partial record merged
    last_vtg        \* history: the last VTG partial record merged

vars ==
    << combined_data, running, lines_read, handoffs, execute_calls, commit_calls,
       table, last_db, call, utc_day, conversion, since_reset, n_gga, n_vtg, last_gga, last_vtg >>

handler_vars ==
    << combined_data, running, lines_read, handoffs, execute_calls, commit_calls,
       table, last_db, since_reset, n_gga, n_vtg, last_gga, last_vtg >>

CallRecord(fn, sentence, today, outcome) ==
    [fn |-> fn, sentence |-> sentence, today |-> today, ret |-> outcome.ret,
     data |-> outcome.data, exc |-> outcome.exc, log |-> outcome.log]

NoCall(line) == CallRecord("none", line, 0, ReturnNone("none"))

NoConversion == [knots |-> PyNone, kmh |-> PyNone]

Init ==
    /\ combined_data = EmptyDict
    /\ running = TRUE
    /\ lines_read = 0
    /\ handoffs = << >>
    /\ execute_calls = << >>
    /\ commit_calls = 0
    /\ table = {}
    /\ last_db = "none"
    /\ call = NoCall("")
    /\ utc_day = 0
    /\ conversion = NoConversion
    /\ since_reset = << >>
    /\ n_gga = 0
    /\ n_vtg = 0
    /\ last_gga = EmptyDict
    /\ last_vtg = EmptyDict

\* a run is either one parser called on its own, as the unit tests do, or a
\* run of the handler thread
Fresh ==
    lines_read = 0 /\ call = NoCall("") /\ utc_day = 0 /\ conversion = NoConversion

\* ------------------------------------------------------ gps_data_handler
\* `if parsed_gga_data:` - None and the empty dict are false
Truthy(c) == c.ret = "dict" /\ DOMAIN c.data # {}

\* combined_data.get(key)
Get(d, key) == IF key \in DOMAIN d THEN d[key] ELSE PyNone

\* variant: a null speed does not complete the fix
IsComplete_NonNull(d) ==
    /\ "latitude" \in DOMAIN d
    /\ "speed_kmh" \in DOMAIN d
    /\ d["speed_kmh"] # PyNone

\* `'latitude' in combined_data and 'speed_kmh' in combined_data`
IsComplete(d) == "latitude" \in DOMAIN d /\ "speed_kmh" \in DOMAIN d

\* the parser the line is dispatched to
Dispatch(line, today) ==
    IF StartsWith(line, "$GNGGA")
    THEN CallRecord("parse_gngga", line, today, parse_gngga(line, today))
    ELSE IF StartsWith(line, "$GNVTG")
    THEN CallRecord("parse_gnvtg", line, 0, parse_gnvtg(line))
    ELSE NoCall(line)

KindOf(c) == IF c.fn = "parse_gngga" THEN "GGA" ELSE "VTG"

\* the arguments gps_data_handler passes to insert_into_database
InsertArgs(d) ==
    [latitude |-> d["latitude"],
     longitude |-> d["longitude"],
     gps_date |-> d["date"],
     gps_time |-> d["time"],
     speed |-> d["speed_kmh"],
     bearing |-> Get(d, "bearing"),
     interval_type |-> Get(d, "fix_quality")]

\* insert_into_database(...) was called with args and did ins; then the reset
StoreAndReset(merged, partials, args, ins, db) ==
    /\ handoffs' = Append(handoffs, args)
    /\ execute_calls' = execute_calls \o ins.execute_calls
    /\ commit_calls' = commit_calls + ins.commit_calls
    /\ table' = table \cup ins.stored
    /\ last_db' = IF ins.execute_calls = << >> THEN "none" ELSE db
    /\ IF ins.exc # "none"
       \* insert_into_database raised: the loop is left before the reset
       THEN /\ running' = FALSE
            /\ combined_data' = merged
            /\ since_reset' = partials
       ELSE /\ running' = running
            /\ combined_data' = EmptyDict
            /\ since_reset' = << >>

\* `if 'latitude' in combined_data and 'speed_kmh' in combined_data:` ...;
\* the storage collaborator answers the INSERT in one of DbOutcomes
ProcessCombined(merged, partials) ==
    IF ~IsComplete(merged)
    THEN /\ combined_data' = merged
         /\ since_reset' = partials
         /\ last_db' = "none"
         /\ UNCHANGED << running, handoffs, execute_calls, commit_calls, table >>
    ELSE \E db \in DbOutcomes :
             StoreAndReset(merged, partials, InsertArgs(merged),
                 insert_into_database(merged["latitude"], merged["longitude"],
                     merged["date"], merged["time"], merged["speed_kmh"],
                     Get(merged, "bearing"), Get(merged, "fix_quality"), db),
                 db)

\* the parser call c was made for the line: `if parsed: combined_data.update(parsed)`
MergeParsed(c, accepted) ==
    /\ call' = c
    /\ n_gga' = IF accepted /\ KindOf(c) = "GGA" THEN n_gga + 1 ELSE n_gga
    /\ n_vtg' = IF accepted /\ KindOf(c) = "VTG" THEN n_vtg + 1 ELSE n_vtg
    /\ last_gga' = IF accepted /\ KindOf(c) = "GGA" THEN c.data ELSE last_gga
    /\ last_vtg' = IF accepted /\ KindOf(c) = "VTG" THEN c.data ELSE last_vtg
    /\ IF c.exc # "none"
       \* the parser raised: `except Exception` outside the while loop
       THEN /\ running' = FALSE
            /\ last_db' = "none"
            /\ UNCHANGED << combined_data, handoffs, execute_calls,
                            commit_calls, table, since_reset >>
       ELSE IF accepted
       THEN ProcessCombined(DictUpdate(combined_data, c.data),
                Append(since_reset, [kind |-> KindOf(c), data |-> c.data]))
       ELSE ProcessCombined(combined_data, since_reset)

\* the line was dispatched to a parser, which did c
Dispatched(c) == MergeParsed(c, Truthy(c))

\* one iteration of the while loop: readline, dispatch (utcnow() is read by
\* parse_gngga only, and returns the day last seen or a later one), merge,
\* and, when the fix is complete, insert_into_database and the reset
GpsDataHandlerIteration(line) ==
    /\ running
    /\ lines_read > 0 \/ Fresh
    /\ lines_read < MaxLines
    /\ lines_read' = lines_read + 1
    /\ UNCHANGED conversion
    /\ IF StartsWith(line, "$GNGGA")
       THEN \E today \in utc_day .. MaxDay :
                /\ utc_day' = today
                /\ Dispatched(Dispatch(line, today))
       ELSE /\ utc_day' = utc_day
            /\ Dispatched(Dispatch(line, 0))

ReadLine == \E line \in SerialLines : GpsDataHandlerIteration(line)

\* ------------------------------------------------------- direct parser calls
CallParseGngga ==
    \E s \in Sentences, today \in Days :
        /\ Fresh
        /\ call' = CallRecord("parse_gngga", s, today, parse_gngga(s, today))
        /\ utc_day' = today
        /\ UNCHANGED << conversion, handler_vars >>

CallParseGnggaSentence ==
    \E s \in Sentences, today \in Days :
        /\ Fresh
        /\ call' = CallRecord("parse_gngga_sentence", s, today,
                              parse_gngga_sentence(s, today))
        /\ utc_day' = today
        /\ UNCHANGED << conversion, handler_vars >>

CallParseGnvtg ==
    \E s \in Sentences :
        /\ Fresh
        /\ call' = CallRecord("parse_gnvtg", s, 0, parse_gnvtg(s))
        /\ UNCHANGED << utc_day, conversion, handler_vars >>

\* the speeds knots_to_kmh is called with
KnotsInputs ==
    { PyFloat(0), PyFloat(Scale \div 2), PyFloat(10 * Scale), PyFloat(20 * Scale),
      PyFloat(55 * (Scale \div 10)), PyFloat(102 * (Scale \div 10)),
      PyFloat(-10 * Scale) }

CallKnotsToKmh ==
    \E knots \in KnotsInputs :
        /\ Fresh
        /\ conversion' = [knots |-> knots, kmh |-> knots_to_kmh(knots)]
        /\ UNCHANGED << call, utc_day, handler_vars >>

Next ==
    \/ ReadLine
    \/ CallParseGngga
    \/ CallParseGnggaSentence
    \/ CallParseGnvtg
    \/ CallKnotsToKmh

Spec == Init /\ [][Next]_vars

\* ==================================================================== claims
Last(seq) == seq[Len(seq)]
Kinds(partials) == {partials[i].kind : i \in DOMAIN partials}
GgaParsers == {"parse_gngga", "parse_gngga_sentence"}
Field(sentence, i) == Split(sentence)[i + 1]
NumFields(sentence) == Len(Split(sentence))

\* the call in the state was made by the handler for the line it just read
HandlerCall == lines_read > 0

\* a coordinate pair within [-90, 90] x [-180, 180], bounds included
LatInRange(x) == x.k = "float" /\ x.v >= -90 * DegUnits /\ x.v <= 90 * DegUnits
LonInRange(x) == x.k = "float" /\ x.v >= -180 * DegUnits /\ x.v <= 180 * DegUnits

\* C1: after exactly one accepted $GNGGA and one accepted $GNVTG, in either
\* order and with other lines in between, exactly one fix has been handed to
\* insert_into_database, and it carries latitude, longitude, date, time and
\* fix_quality of the GGA and speed_kmh and bearing of the VTG.
C1_FusionOrdering ==
    (n_gga = 1 /\ n_vtg = 1) =>
        /\ Len(handoffs) = 1
        /\ handoffs[1] = [latitude |-> last_gga["latitude"],
                          longitude |-> last_gga["longitude"],
                          gps_date |-> last_gga["date"],
                          gps_time |-> last_gga["time"],
                          interval_type |-> last_gga["fix_quality"],
                          speed |-> last_vtg["speed_kmh"],
                          bearing |-> last_vtg["bearing"]]

\* the VTG came first, another line in between, the GGA completed the fix
C1_Witness ==
    /\ n_gga = 1 /\ n_vtg = 1 /\ lines_read = 3
    /\ call.fn = "parse_gngga" /\ call.ret = "dict"
    /\ Len(handoffs) = 1
    /\ handoffs[1].speed = PyFloat(102 * (Scale \div 10))

\* C2: a fix is handed to storage only in an iteration after which the partial
\* records merged since the last reset include both a GGA and a VTG; with GGA
\* records only (or VTG records only) nothing is ever handed over.
C2_NoEmissionWithoutBoth ==
    [][ Len(handoffs') > Len(handoffs) =>
            Kinds(since_reset)
              \cup (IF call'.ret = "dict" THEN {KindOf(call')} ELSE {})
              = {"GGA", "VTG"} ]_vars

\* the same valid GGA sentence was read twice and nothing was handed over
C2_Witness ==
    /\ Len(since_reset) = 2
    /\ since_reset[1] = since_reset[2]
    /\ since_reset[1].kind = "GGA"
    /\ handoffs = << >>
    /\ "latitude" \in DOMAIN combined_data

\* C3: a call of insert_into_database makes one cursor.execute with the row,
\* followed by commit unless execute raised, exactly when latitude is in
\* [-90, 90] and longitude in [-180, 180]; otherwise it makes no execute and no
\* commit; no other step executes anything, and no stored row is out of range.
C3_RowOf(h) ==
    [latd |-> h.latitude, lond |-> h.longitude, gps_date |-> h.gps_date,
     gps_time |-> h.gps_time, speed |-> h.speed, bearing |-> h.bearing,
     interval_type |-> h.interval_type]

C3_ValidatedBeforePersist ==
    [][ /\ IF Len(handoffs') > Len(handoffs)
           THEN IF LatInRange(Last(handoffs').latitude)
                   /\ LonInRange(Last(handoffs').longitude)
                THEN /\ execute_calls' = Append(execute_calls, C3_RowOf(Last(handoffs')))
                     /\ commit_calls' = commit_calls
                            + (IF last_db' \in {"execute_raises_mysql_error",
                                                "execute_raises_other"}
                               THEN 0 ELSE 1)
                     /\ last_db' = "ok" => table' = table \cup {C3_RowOf(Last(handoffs'))}
                ELSE /\ execute_calls' = execute_calls
                     /\ commit_calls' = commit_calls
                     /\ table' = table
           ELSE /\ execute_calls' = execute_calls
                /\ commit_calls' = commit_calls
                /\ table' = table
        /\ \A r \in table' : LatInRange(r.latd) /\ LonInRange(r.lond)
        /\ \A i \in DOMAIN execute_calls' :
               LatInRange(execute_calls'[i].latd) /\ LonInRange(execute_calls'[i].lond)
      ]_vars

\* a fix at latitude -90, longitude -180 was stored, and a fix at latitude
\* 90.0001 was handed over and not executed
C3_Witness ==
    /\ \E r \in table : r.latd = PyFloat(-90 * DegUnits) /\ r.lond = PyFloat(-180 * DegUnits)
    /\ \E i \in DOMAIN handoffs :
           handoffs[i].latitude = PyFloat(90 * DegUnits + 6 * (Scale \div 1000))
    /\ Len(execute_calls) = 1

\* a $GNGGA sentence whose fix-quality field reads 0, 6, 7 or 8
QualityDroppedIn(parts) ==
    /\ parts[1] = "$GNGGA"
    /\ Len(parts) > 6
    /\ parts[7] # ""
    /\ IsDigits(parts[7])
    /\ DigitsVal(parts[7]) \in {0, 6, 7, 8}

QualityDropped(sentence) == QualityDroppedIn(Split(sentence))

\* C4: for a $GNGGA sentence with fix quality 0, 6, 7 or 8 the fix parser
\* returns None without raising, whatever the other fields are, and the
\* handler iteration that reads it leaves the accumulator as it was.
C4_NonActionableDropped ==
    [][ (call'.fn \in GgaParsers /\ QualityDropped(call'.sentence)) =>
            /\ call'.ret = "None"
            /\ call'.exc = "none"
            /\ combined_data' = combined_data ]_vars

\* the handler read a quality-6 sentence with valid position while a VTG
\* partial record was waiting in the accumulator
C4_Witness ==
    /\ HandlerCall
    /\ call.fn = "parse_gngga"
    /\ QualityDropped(call.sentence)
    /\ Field(call.sentence, 6) = "6"
    /\ "speed_kmh" \in DOMAIN combined_data
    /\ call.ret = "None"

\* C5: every record a fix parser returns (quality not in {0, 6, 7, 8}) has its
\* latitude in [-90, 90] and its longitude in [-180, 180].
C5_ParsedRecordInRange ==
    (call.fn \in GgaParsers /\ call.ret = "dict") =>
        IF call.fn = "parse_gngga"
        THEN /\ LatInRange(call.data["latitude"])
             /\ LonInRange(call.data["longitude"])
        ELSE /\ LatInRange(call.data["coordinate.latitude"])
             /\ LonInRange(call.data["coordinate.longitude"])

\* a decimal numeral: digits, optionally a point and more digits
IsNumeral(s) ==
    LET dot == FindChar(s, ".", 0)
        ip == SliceTo(s, 0, dot)
        fp == SliceFrom(s, dot + 1)
    IN  s # "" /\ IsDigits(ip) /\ IsDigits(fp) /\ (ip # "" \/ fp # "")

\* a field that is present and is no number
NonNumeric(f) == f # "" /\ ~IsNumeral(f)

\* the smallest number of fields a fix or course sentence is read up to
FieldsRead == 8

\* a malformed fix sentence: wrong or missing identifier, too few fields, or a
\* non-numeric time, coordinate, quality or satellite field
MalformedGgaIn(parts) ==
    \/ parts[1] # "$GNGGA"
    \/ Len(parts) < FieldsRead
    \/ NonNumeric(parts[2])
    \/ NonNumeric(parts[3])
    \/ NonNumeric(parts[5])
    \/ NonNumeric(parts[7])
    \/ NonNumeric(parts[8])

MalformedGga(sentence) == MalformedGgaIn(Split(sentence))

\* a malformed course sentence: wrong or missing identifier, or too few fields
MalformedVtgIn(parts) ==
    \/ parts[1] # "$GNVTG"
    \/ Len(parts) < FieldsRead

MalformedVtg(sentence) == MalformedVtgIn(Split(sentence))

\* malformed for the parser fn, given the fields of the sentence
MalformedFor(fn, parts) ==
    IF fn \in GgaParsers THEN MalformedGgaIn(parts) ELSE MalformedVtgIn(parts)

\* C6: for every malformed sentence the fix parsers and the course parser
\* return None and raise nothing.
C6_ParsersTotal ==
    (call.fn # "none" /\ MalformedFor(call.fn, Split(call.sentence))) =>
        /\ call.ret = "None"
        /\ call.exc = "none"

\* a malformed line as gps_data_handler meets it: a $GNGGA or $GNVTG line that
\* is malformed, or a line with another identifier
MalformedLine(line) ==
    IF StartsWith(line, "$GNGGA") THEN MalformedGga(line)
    ELSE IF StartsWith(line, "$GNVTG") THEN MalformedVtg(line)
    ELSE TRUE

\* C7: the handler iteration that reads a malformed line leaves the loop
\* running and the accumulator and the hand-offs as they were.
C7_ParseErrorNeverAborts ==
    [][ (lines_read' = lines_read + 1 /\ MalformedLine(call'.sentence)) =>
            /\ running'
            /\ combined_data' = combined_data
            /\ handoffs' = handoffs ]_vars

\* C8: the handler iteration in which the storage collaborator raises during
\* execute or commit leaves the loop running.
C8_StorageFailureNeverStops ==
    [][ (Len(handoffs') > Len(handoffs) /\ last_db' \notin {"none", "ok"}) =>
            running' ]_vars

\* the sentence identifier is not the one the parser decodes
WrongIdentifier(fn, parts) ==
    parts[1] # (IF fn \in GgaParsers THEN "$GNGGA" ELSE "$GNVTG")

\* a fix sentence, given by its fields, that the parser fn drops for its
\* quality: the quality field reads 0, 6, 7 or 8, or is empty where the parser
\* reads an empty field as 0; for parse_gngga_sentence the sentence has the
\* fields it requires
NoFix(fn, parts) ==
    /\ fn \in GgaParsers
    /\ parts[1] = "$GNGGA"
    /\ Len(parts) > 6
    /\ \/ QualityDroppedIn(parts)
       \/ fn = "parse_gngga_sentence" /\ parts[7] = ""
    /\ fn = "parse_gngga_sentence" => Len(parts) >= MinGgaFields

NumeralValue(f) ==
    LET dot == FindChar(f, ".", 0)
    IN  DigitsVal(SliceTo(f, 0, dot)) * Scale + FracVal(SliceFrom(f, dot + 1))

\* what a course field decodes to: null when empty, its value when a numeral
DecodesTo(x, f) ==
    /\ f = "" => x = PyNone
    /\ IsNumeral(f) => x = PyFloat(NumeralValue(f))

\* the call c returned the course record of the sentence with these fields
CourseRecordOf(c, parts) ==
    /\ c.ret = "dict"
    /\ c.exc = "none"
    /\ DOMAIN c.data = {"bearing", "speed_kmh"}
    /\ DecodesTo(c.data["bearing"], parts[2])
    /\ DecodesTo(c.data["speed_kmh"], parts[8])

ScenarioVtg == "$GNVTG,054.7,T,034.4,M,005.5,N,010.2,K*48"

RawMagnitude(raw, n) ==
    DigitsVal(SliceTo(raw, 0, n)) * 60 * Scale + NumeralValue(SliceFrom(raw, n))

\* a raw coordinate of the form D..DMM.mmmm with n degree digits
IsRawCoordinate(raw, n) ==
    /\ Len(raw) > n
    /\ IsDigits(SliceTo(raw, 0, n))
    /\ IsNumeral(SliceFrom(raw, n))

\* x is the decoding of the raw coordinate: its magnitude, negated exactly
\* when the hemisphere is neg
DecodedAs(x, raw, n, hemisphere, neg) ==
    /\ x.k = "float"
    /\ x.v = IF hemisphere = neg THEN -RawMagnitude(raw, n) ELSE RawMagnitude(raw, n)
    /\ hemisphere # neg => x.v >= 0

ScenarioGga == "$GNGGA,123519.00,4807.038,N,01131.000,E,1,08,0.9,545.4,M,46.9,M,,*47"

LatitudeOf(c) ==
    IF c.fn = "parse_gngga" THEN c.data["latitude"] ELSE c.data["coordinate.latitude"]

LongitudeOf(c) ==
    IF c.fn = "parse_gngga" THEN c.data["longitude"] ELSE c.data["coordinate.longitude"]

\* C11: in every record a fix parser returns for a raw latitude DDMM.mmmm and a
\* raw longitude DDDMM.mmmm, the latitude is DD + MM.mmmm/60 and the longitude
\* DDD + MM.mmmm/60, negated exactly when the hemisphere is S (W), and not
\* negative otherwise; the scenario sentence gives 48.1173 and 11.516666...
C11_CoordinateDecoding ==
    LET parts == Split(call.sentence)
    IN  /\ ( /\ call.fn \in GgaParsers
             /\ call.ret = "dict"
             /\ IsRawCoordinate(parts[3], 2)
             /\ IsRawCoordinate(parts[5], 3) ) =>
               /\ DecodedAs(LatitudeOf(call), parts[3], 2, parts[4], "S")
               /\ DecodedAs(LongitudeOf(call), parts[5], 3, parts[6], "W")
        /\ (call.fn \in GgaParsers /\ call.sentence = ScenarioGga) =>
               /\ call.ret = "dict"
               /\ LatitudeOf(call) = PyFloat(48 * DegUnits + 7038 * (Scale \div 1000))
               /\ LongitudeOf(call) = PyFloat(11 * DegUnits + 31 * Scale)

\* a fix in the southern and western hemisphere was decoded to negative values
C11_Witness ==
    /\ call.fn \in GgaParsers
    /\ call.ret = "dict"
    /\ Field(call.sentence, 3) = "S"
    /\ Field(call.sentence, 5) = "W"
    /\ LatitudeOf(call).v < 0
    /\ LongitudeOf(call).v < 0

\* a UTC time field HHMMSS[.fff]: two digits, two digits, a numeral
IsTimeField(f) ==
    /\ Len(f) > 4
    /\ IsDigits(SliceTo(f, 0, 4))
    /\ IsNumeral(SliceFrom(f, 4))

\* the time of day a time field names, in units of 1/Scale second
TimeOfDay(f) ==
    (DigitsVal(SliceTo(f, 0, 2)) * 60 + DigitsVal(SliceTo(f, 2, 4))) * 60 * Scale
        + NumeralValue(SliceFrom(f, 4))

\* the local time of day and the local date at UTC+5:30 of UTC time t on day d
LocalTime(t) == PyTime((t + (5 * 60 + 30) * 60 * Scale) % (24 * 60 * 60 * Scale))
LocalDate(d, t) == PyDate(IF t >= (18 * 60 + 30) * 60 * Scale THEN d + 1 ELSE d)

\* the record of call c holds the Asia/Kolkata date and time of its sentence
StoresLocalTime(c) ==
    LET t == TimeOfDay(Field(c.sentence, 1))
    IN  /\ c.data["time"] = LocalTime(t)
        /\ c.data["date"] = LocalDate(c.today, t)

\* C12: every record a fix parser returns stores time = (t + 5h30m) mod 24h
\* and date = d + 1 exactly when t >= 18:30:00, for the UTC date d and the
\* UTC time t of the sentence.
C12_TimezoneNormalization ==
    (call.fn \in GgaParsers /\ call.ret = "dict") => StoresLocalTime(call)

\* the keys a complete fix holds
FixKeys == {"latitude", "longitude", "date", "time", "speed_kmh"}

\* C13: a handler iteration hands a fix to storage exactly when the
\* accumulator, after the merge of the line's record, holds all of latitude,
\* longitude, date, time and speed_kmh; presence is the test, so the fix is
\* handed over with its speed_kmh even when that is null.
C13_CompletenessPredicate ==
    [][ (lines_read' = lines_read + 1 /\ call'.exc = "none") =>
            LET merged == IF call'.ret = "dict"
                          THEN DictUpdate(combined_data, call'.data)
                          ELSE combined_data
            IN  /\ Len(handoffs') \in {Len(handoffs), Len(handoffs) + 1}
                /\ Len(handoffs') = Len(handoffs) + 1 <=> FixKeys \subseteq DOMAIN merged
                /\ Len(handoffs') = Len(handoffs) + 1 =>
                       /\ Last(handoffs').latitude = merged["latitude"]
                       /\ Last(handoffs').longitude = merged["longitude"]
                       /\ Last(handoffs').gps_date = merged["date"]
                       /\ Last(handoffs').gps_time = merged["time"]
                       /\ Last(handoffs').speed = merged["speed_kmh"]
      ]_vars

\* a $GNVTG with an empty speed field completed a fix, handed over with a
\* null speed
C13_Witness ==
    /\ handoffs # << >>
    /\ Last(handoffs).speed = PyNone
    /\ Last(handoffs).latitude.k = "float"
    /\ call.fn = "parse_gnvtg"
    /\ Field(call.sentence, 7) = ""

Min(a, b) == IF a <= b THEN a ELSE b

\* C14: every handler iteration in which the fix is complete makes exactly one
\* hand-off and ends with the accumulator empty, whatever the insert did
\* (stored, rejected by the range check, failed); and the number of hand-offs
\* never exceeds the number of accepted GGA records nor that of accepted VTG
\* records.
C14_EmitThenReset ==
    [][ (lines_read' = lines_read + 1 /\ call'.exc = "none") =>
            LET merged == IF call'.ret = "dict"
                          THEN DictUpdate(combined_data, call'.data)
                          ELSE combined_data
            IN  /\ FixKeys \subseteq DOMAIN merged =>
                       /\ Len(handoffs') = Len(handoffs) + 1
                       /\ combined_data' = EmptyDict
                /\ Len(handoffs') <= Min(n_gga', n_vtg')
      ]_vars

\* the data of the most recent partial record of the kind
LastOfKind(partials, kind) ==
    LET i == CHOOSE i \in DOMAIN partials :
                 /\ partials[i].kind = kind
                 /\ \A j \in DOMAIN partials : partials[j].kind = kind => j <= i
    IN  partials[i].data

\* d and e agree on the keys: each is in both or in neither, with one value
SameOn(d, e, keys) ==
    \A k \in keys :
        /\ k \in DOMAIN d <=> k \in DOMAIN e
        /\ k \in DOMAIN d => d[k] = e[k]

GgaKeys ==
    {"latitude", "longitude", "date", "time", "num_satellites", "high_accuracy",
     "fix_quality"}

VtgKeys == {"speed_kmh", "bearing"}

\* C15: a fix handed to storage carries the fields of the most recent GGA
\* record and of the most recent VTG record accepted since the last reset; a
\* line that is rejected leaves the accumulator as it was, a GGA merge leaves
\* speed_kmh and bearing as they were and a VTG merge the GGA fields.
C15_LastWriteWins ==
    [][ lines_read' = lines_read + 1 =>
            LET partials == IF call'.ret = "dict"
                            THEN Append(since_reset,
                                     [kind |-> KindOf(call'), data |-> call'.data])
                            ELSE since_reset
            IN  /\ Len(handoffs') > Len(handoffs) =>
                       LET g == LastOfKind(partials, "GGA")
                           v == LastOfKind(partials, "VTG")
                       IN  Last(handoffs') =
                               [latitude |-> g["latitude"],
                                longitude |-> g["longitude"],
                                gps_date |-> g["date"],
                                gps_time |-> g["time"],
                                interval_type |-> g["fix_quality"],
                                speed |-> v["speed_kmh"],
                                bearing |-> v["bearing"]]
                /\ Len(handoffs') = Len(handoffs) =>
                       /\ call'.ret # "dict" => combined_data' = combined_data
                       /\ (call'.ret = "dict" /\ call'.fn = "parse_gngga") =>
                              /\ SameOn(combined_data', combined_data, VtgKeys)
                              /\ SameOn(combined_data', call'.data, GgaKeys)
                       /\ (call'.ret = "dict" /\ call'.fn = "parse_gnvtg") =>
                              /\ SameOn(combined_data', combined_data, GgaKeys)
                              /\ SameOn(combined_data', call'.data, VtgKeys)
      ]_vars

\* two accepted GGA records with different positions were merged and the
\* accumulator holds the position of the second
C15_Witness ==
    /\ Len(since_reset) = 2
    /\ since_reset[1].kind = "GGA"
    /\ since_reset[2].kind = "GGA"
    /\ since_reset[1].data["latitude"] # since_reset[2].data["latitude"]
    /\ combined_data["latitude"] = since_reset[2].data["latitude"]
    /\ call.fn = "parse_gngga"

Abs(n) == IF n >= 0 THEN n ELSE -n

\* kmh is knots x 1.852, to the nearest unit of 10^-FracDigits
IsKnotsTimes1852(kmh, knots) ==
    /\ kmh.k = "float"
    /\ Abs(kmh.v * 1000 - knots.v * 1852) <= 500

\* what the knots_to_kmh call in the state did: x 1.852, and 10 gives 18.52
ConversionIsLinear ==
    conversion # NoConversion =>
        /\ IsKnotsTimes1852(conversion.kmh, conversion.knots)
        /\ conversion.knots = PyFloat(10 * Scale) =>
               conversion.kmh = PyFloat(1852 * (Scale \div 100))

\* C16 as stated: the course parser returns speed_kmh = knots_to_kmh(field 7),
\* null for an empty field 7; knots_to_kmh is x 1.852 and gives 18.52 for 10.
C16_KnotsConversion ==
    /\ (call.fn = "parse_gnvtg" /\ call.ret = "dict") =>
           LET speed == Field(call.sentence, 7)
           IN  /\ speed = "" => call.data["speed_kmh"] = PyNone
               /\ IsNumeral(speed) =>
                      call.data["speed_kmh"] = knots_to_kmh(PyFloat(NumeralValue(speed)))
    /\ ConversionIsLinear

\* C16, amended: the course parser returns the value of field 7 as speed_kmh
\* as it stands, without applying knots_to_kmh (so it differs from
\* knots_to_kmh(field 7) unless field 7 is zero), and null for an empty field
\* 7; knots_to_kmh is x 1.852 and gives 18.52 for 10.
C16_SpeedNotConverted ==
    /\ (call.fn = "parse_gnvtg" /\ call.ret = "dict") =>
           LET speed == Field(call.sentence, 7)
           IN  /\ speed = "" => call.data["speed_kmh"] = PyNone
               /\ IsNumeral(speed) =>
                      /\ call.data["speed_kmh"] = PyFloat(NumeralValue(speed))
                      /\ NumeralValue(speed) # 0 =>
                             call.data["speed_kmh"]
                                 # knots_to_kmh(PyFloat(NumeralValue(speed)))
    /\ ConversionIsLinear

\* a course sentence without bearing and with field 7 = 010.2 was decoded to
\* speed_kmh 10.2
C16_Witness ==
    /\ call.fn = "parse_gnvtg"
    /\ call.ret = "dict"
    /\ Field(call.sentence, 1) = ""
    /\ Field(call.sentence, 7) = "010.2"
    /\ call.data["speed_kmh"] = PyFloat(102 * (Scale \div 10))

\* a $GNGGA sentence, given by its fields, whose quality is actionable
ActionableGga(parts) ==
    /\ parts[1] = "$GNGGA"
    /\ Len(parts) > 6
    /\ parts[7] # ""
    /\ IsDigits(parts[7])
    /\ DigitsVal(parts[7]) \notin {0, 6, 7, 8}

\* a raw coordinate that is empty or no number, or a hemisphere that is empty
CoordinateUndecodable(parts) ==
    \/ parts[3] = "" \/ NonNumeric(parts[3])
    \/ parts[5] = "" \/ NonNumeric(parts[5])
    \/ parts[4] = ""
    \/ parts[6] = ""

\* C17: for a $GNGGA sentence with actionable quality whose raw latitude or
\* longitude is empty or non-numeric, or whose hemisphere field is empty, the
\* fix parsers return no record.
C17_CoordinateDecodeFailures ==
    LET parts == Split(call.sentence)
    IN  ( /\ call.fn \in GgaParsers
          /\ ActionableGga(parts)
          /\ CoordinateUndecodable(parts) ) =>
            call.ret # "dict"

\* the time of day the record of call c holds for the UTC time t: as decoded
\* by parse_gngga_sentence, moved to Asia/Kolkata by parse_gngga
HoldsTime(c, t) ==
    c.data["time"] = IF c.fn = "parse_gngga" THEN LocalTime(t) ELSE PyTime(t)

\* C18: for a $GNGGA sentence with actionable quality whose UTC time field has
\* fewer than 6 characters the fix parsers return no record; a record returned
\* for a time field HHMMSS[.fff] holds hour HH, minute MM, second SS and the
\* fraction of the field.
C18_UtcTimeDecode ==
    LET parts == Split(call.sentence)
    IN  (call.fn \in GgaParsers /\ ActionableGga(parts)) =>
            /\ Len(parts[2]) < MinTimeLen => call.ret # "dict"
            /\ (call.ret = "dict" /\ IsTimeField(parts[2])) =>
                   HoldsTime(call, TimeOfDay(parts[2]))

====
